---- MODULE Spec2Model ----
(***************************************************************************)
(* Huronalytics site builder (src/build.py): the entry parser, the sort    *)
(* key, the sheet-to-transaction mapper, the corpus, the grouping of a     *)
(* team page into accordion sections and the files build_site writes.      *)
(*                                                                         *)
(* A Python str is a sequence of one-character strings, so that slicing,   *)
(* split, join, strip and int() are computed as the code computes them.    *)
(* Python's None and pandas' NaN are the two values None and NaN below.    *)
(***************************************************************************)
EXTENDS Integers, Sequences, FiniteSets, TLC

VARIABLES
    raw_entry,          \* the string handed to parse_date (entry harness)
    parsed,             \* what parse_date returned for raw_entry
    sort_key,           \* what date_sort_key returned for the parsed entry
    markup,             \* what the renderers made of the parsed entry
    epc,                \* position of the entry harness
    workbook,           \* the sheets of the Excel file, in workbook order
    pc,                 \* position of build_site
    all_transactions,   \* parse_excel's flat list
    team_data,          \* parse_excel's per-team, per-category structure
    files,              \* the files written to the output directory, in order
    todo                \* the teams build_site has still to write a page for

vars == <<raw_entry, parsed, sort_key, markup, epc,
          workbook, pc, all_transactions, team_data, files, todo>>

entry_vars == <<raw_entry, parsed, sort_key, markup, epc>>
site_vars  == <<workbook, pc, all_transactions, team_data, files, todo>>

None == <<"None">>      \* Python's None (no one-character string)
NaN  == <<"NaN">>       \* an empty spreadsheet cell as pandas reads it

(***************************************************************************)
(* Bounds of the model.                                                    *)
(***************************************************************************)
MaxDigits == 2          \* digits of a month or day numeral of an input
MaxTail   == 2          \* characters of the text after the date
MaxSheets == 2          \* sheets of a workbook
NumCols   == 2          \* columns of a sheet
TotalRows == 2          \* data rows of a workbook, shared out evenly over its sheets
MaxCells  == 2          \* non-empty data cells of a workbook

(***************************************************************************)
(* Configuration tables (src/build.py lines 18-81).                        *)
(***************************************************************************)
TEAM_INFO ==
       (<<"A", "R", "I">> :> [name |-> "Arizona Diamondbacks", short |-> "Diamondbacks"])
    @@ (<<"A", "T", "H">> :> [name |-> "Athletics", short |-> "Athletics"])
    @@ (<<"A", "T", "L">> :> [name |-> "Atlanta Braves", short |-> "Braves"])
    @@ (<<"B", "A", "L">> :> [name |-> "Baltimore Orioles", short |-> "Orioles"])
    @@ (<<"B", "O", "S">> :> [name |-> "Boston Red Sox", short |-> "Red Sox"])
    @@ (<<"C", "H", "C">> :> [name |-> "Chicago Cubs", short |-> "Cubs"])
    @@ (<<"C", "H", "W">> :> [name |-> "Chicago White Sox", short |-> "White Sox"])
    @@ (<<"C", "I", "N">> :> [name |-> "Cincinnati Reds", short |-> "Reds"])
    @@ (<<"C", "L", "E">> :> [name |-> "Cleveland Guardians", short |-> "Guardians"])
    @@ (<<"C", "O", "L">> :> [name |-> "Colorado Rockies", short |-> "Rockies"])
    @@ (<<"D", "E", "T">> :> [name |-> "Detroit Tigers", short |-> "Tigers"])
    @@ (<<"H", "O", "U">> :> [name |-> "Houston Astros", short |-> "Astros"])
    @@ (<<"K", "C", "R">> :> [name |-> "Kansas City Royals", short |-> "Royals"])
    @@ (<<"L", "A", "A">> :> [name |-> "Los Angeles Angels", short |-> "Angels"])
    @@ (<<"L", "A", "D">> :> [name |-> "Los Angeles Dodgers", short |-> "Dodgers"])
    @@ (<<"M", "I", "A">> :> [name |-> "Miami Marlins", short |-> "Marlins"])
    @@ (<<"M", "I", "L">> :> [name |-> "Milwaukee Brewers", short |-> "Brewers"])
    @@ (<<"M", "I", "N">> :> [name |-> "Minnesota Twins", short |-> "Twins"])
    @@ (<<"N", "Y", "M">> :> [name |-> "New York Mets", short |-> "Mets"])
    @@ (<<"N", "Y", "Y">> :> [name |-> "New York Yankees", short |-> "Yankees"])
    @@ (<<"P", "H", "I">> :> [name |-> "Philadelphia Phillies", short |-> "Phillies"])
    @@ (<<"P", "I", "T">> :> [name |-> "Pittsburgh Pirates", short |-> "Pirates"])
    @@ (<<"S", "D", "P">> :> [name |-> "San Diego Padres", short |-> "Padres"])
    @@ (<<"S", "E", "A">> :> [name |-> "Seattle Mariners", short |-> "Mariners"])
    @@ (<<"S", "F", "G">> :> [name |-> "San Francisco Giants", short |-> "Giants"])
    @@ (<<"S", "T", "L">> :> [name |-> "St. Louis Cardinals", short |-> "Cardinals"])
    @@ (<<"T", "B", "R">> :> [name |-> "Tampa Bay Rays", short |-> "Rays"])
    @@ (<<"T", "E", "X">> :> [name |-> "Texas Rangers", short |-> "Rangers"])
    @@ (<<"T", "O", "R">> :> [name |-> "Toronto Blue Jays", short |-> "Blue Jays"])
    @@ (<<"W", "S", "H">> :> [name |-> "Washington Nationals", short |-> "Nationals"])

ACCORDION_SECTIONS == <<
    [title |-> <<"M", "L", "B", " ", "S", "i", "g", "n", "i", "n", "g", "s">>,
     columns |-> <<<<"M", "L", "B", " ", "S", "i", "g", "n", "i", "n", "g", "s">>>>,
     subheaders |-> FALSE],
    [title |-> <<"M", "i", "L", "B", " ", "S", "i", "g", "n", "i", "n", "g", "s">>,
     columns |-> <<<<"M", "i", "L", "B", " ", "S", "i", "g", "n", "i", "n", "g", "s">>>>,
     subheaders |-> FALSE],
    [title |-> <<"I", "n", "t", "e", "r", "n", "a", "t", "i", "o", "n", "a", "l", " ", "S", "i", "g", "n", "i", "n", "g", "s">>,
     columns |-> <<<<"I", "n", "t", "l", " ", "A", "m", "a", "t", "e", "u", "r", " ", "S", "i", "g", "n", "i", "n", "g", "s">>>>,
     subheaders |-> FALSE],
    [title |-> <<"T", "r", "a", "d", "e", "s">>,
     columns |-> <<<<"T", "r", "a", "d", "e", "d", " ", "F", "o", "r">>,
                   <<"T", "r", "a", "d", "e", "d", " ", "A", "w", "a", "y">>>>,
     subheaders |-> TRUE],
    [title |-> <<"E", "x", "t", "e", "n", "s", "i", "o", "n", "s">>,
     columns |-> <<<<"E", "x", "t", "e", "n", "s", "i", "o", "n", "s">>>>,
     subheaders |-> FALSE],
    [title |-> <<"W", "a", "i", "v", "e", "r", " ", "C", "l", "a", "i", "m", "s">>,
     columns |-> <<<<"W", "a", "i", "v", "e", "r", " ", "C", "l", "a", "i", "m", "s">>>>,
     subheaders |-> FALSE],
    [title |-> <<"L", "o", "s", "t", " ", "o", "f", "f", " ", "W", "a", "i", "v", "e", "r", "s">>,
     columns |-> <<<<"L", "o", "s", "t", " ", "o", "f", "f", " ", "W", "a", "i", "v", "e", "r", "s">>>>,
     subheaders |-> FALSE],
    [title |-> <<"O", "u", "t", "r", "i", "g", "h", "t", "e", "d">>,
     columns |-> <<<<"O", "u", "t", "r", "i", "g", "h", "t", "e", "d">>>>,
     subheaders |-> FALSE],
    [title |-> <<"A", "d", "d", "e", "d", " ", "t", "o", " ", "4", "0", "-", "M", "a", "n">>,
     columns |-> <<<<"A", "d", "d", "e", "d", " ", "t", "o", " ", "4", "0", "-", "M", "a", "n">>>>,
     subheaders |-> FALSE],
    [title |-> <<"R", "u", "l", "e", "-", "5", " ", "D", "r", "a", "f", "t">>,
     columns |-> <<<<"R", "u", "l", "e", "-", "5", " ", "D", "r", "a", "f", "t", " ", "A", "d", "d", "i", "t", "i", "o", "n", "s">>,
                   <<"R", "u", "l", "e", "-", "5", " ", "D", "r", "a", "f", "t", " ", "L", "o", "s", "s", "e", "s">>>>,
     subheaders |-> TRUE],
    [title |-> <<"M", "L", "B", " ", "F", "r", "e", "e", " ", "A", "g", "e", "n", "t", "s", " ", "/", " ", "N", "o", "n", "-", "t", "e", "n", "d", "e", "r", "e", "d">>,
     columns |-> <<<<"E", "l", "e", "c", "t", "e", "d", " ", "M", "L", "B", " ", "F", "A", "/", "N", "o", "n", "-", "t", "e", "n", "d", "e", "r", "e", "d">>>>,
     subheaders |-> FALSE],
    [title |-> <<"M", "i", "L", "B", " ", "F", "r", "e", "e", " ", "A", "g", "e", "n", "t", "s">>,
     columns |-> <<<<"E", "l", "e", "c", "t", "e", "d", " ", "M", "i", "L", "B", " ", "F", "A">>>>,
     subheaders |-> FALSE],
    [title |-> <<"R", "e", "l", "e", "a", "s", "e", "d">>,
     columns |-> <<<<"R", "e", "l", "e", "a", "s", "e", "d">>>>,
     subheaders |-> FALSE],
    [title |-> <<"R", "e", "t", "i", "r", "e", "d">>,
     columns |-> <<<<"R", "e", "t", "i", "r", "e", "d">>>>,
     subheaders |-> FALSE] >>

MLB_RELEVANT_COLS ==
    { <<"M", "L", "B", " ", "S", "i", "g", "n", "i", "n", "g">>,
      <<"E", "x", "t", "e", "n", "s", "i", "o", "n">>,
      <<"T", "r", "a", "d", "e", "d", " ", "F", "o", "r">>,
      <<"T", "r", "a", "d", "e", "d", " ", "A", "w", "a", "y">>,
      <<"W", "a", "i", "v", "e", "r", " ", "C", "l", "a", "i", "m">>,
      <<"L", "o", "s", "t", " ", "o", "f", "f", " ", "W", "a", "i", "v", "e", "r", "s">> }

SUBHEADER_LABELS ==
       (<<"T", "r", "a", "d", "e", "d", " ", "F", "o", "r">> :> <<"A", "c", "q", "u", "i", "r", "e", "d">>)
    @@ (<<"T", "r", "a", "d", "e", "d", " ", "A", "w", "a", "y">> :> <<"T", "r", "a", "d", "e", "d", " ", "A", "w", "a", "y">>)
    @@ (<<"R", "u", "l", "e", "-", "5", " ", "D", "r", "a", "f", "t", " ", "A", "d", "d", "i", "t", "i", "o", "n", "s">> :> <<"A", "d", "d", "i", "t", "i", "o", "n", "s">>)
    @@ (<<"R", "u", "l", "e", "-", "5", " ", "D", "r", "a", "f", "t", " ", "L", "o", "s", "s", "e", "s">> :> <<"L", "o", "s", "s", "e", "s">>)

LowerCase ==
       ("A" :> "a") @@ ("B" :> "b") @@ ("C" :> "c") @@ ("D" :> "d") @@ ("E" :> "e") @@ ("F" :> "f")
    @@ ("G" :> "g") @@ ("H" :> "h") @@ ("I" :> "i") @@ ("J" :> "j") @@ ("K" :> "k") @@ ("L" :> "l")
    @@ ("M" :> "m") @@ ("N" :> "n") @@ ("O" :> "o") @@ ("P" :> "p") @@ ("Q" :> "q") @@ ("R" :> "r")
    @@ ("S" :> "s") @@ ("T" :> "t") @@ ("U" :> "u") @@ ("V" :> "v") @@ ("W" :> "w") @@ ("X" :> "x")
    @@ ("Y" :> "y") @@ ("Z" :> "z")

SKIP_COLS == { <<"N", "e", "w", " ", "T", "e", "a", "m">> }

NEW_TEAM == <<"N", "e", "w", " ", "T", "e", "a", "m">>

INDY_BALL == <<"I", "n", "d", "y", " ", "B", "a", "l", "l">>

\* line 179
PAIRABLE_COLS ==
    { <<"E", "l", "e", "c", "t", "e", "d", " ", "M", "L", "B", " ", "F", "A", "/", "N", "o", "n", "-", "t", "e", "n", "d", "e", "r", "e", "d">>,
      <<"E", "l", "e", "c", "t", "e", "d", " ", "M", "i", "L", "B", " ", "F", "A">>,
      <<"R", "e", "l", "e", "a", "s", "e", "d">> }

PAIRED_KEY == <<"_", "p", "a", "i", "r", "e", "d">>

INDEX_HTML == <<"i", "n", "d", "e", "x", ".", "h", "t", "m", "l">>

DOT_HTML == <<".", "h", "t", "m", "l">>

(***************************************************************************)
(* Python str operations.                                                  *)
(***************************************************************************)
startswith(s, p) == Len(s) >= Len(p) /\ SubSeq(s, 1, Len(p)) = p

endswith(s, p) == Len(s) >= Len(p) /\ SubSeq(s, Len(s) - Len(p) + 1, Len(s)) = p

\* s[a:-b] for a, b > 0: drop a characters in front and b at the end
slice(s, a, b) == SubSeq(s, a + 1, Len(s) - b)

Occurrences(s, p) ==
    {i \in 1..(Len(s) - Len(p) + 1) : SubSeq(s, i, i + Len(p) - 1) = p}

\* p in s
contains(s, p) == Occurrences(s, p) # {}

\* s.find(p), 1-based; only used when p in s
find(s, p) == CHOOSE i \in Occurrences(s, p) : \A j \in Occurrences(s, p) : i <= j

RECURSIVE split(_, _)
\* s.split(sep): the pieces between the non-overlapping occurrences of sep,
\* found left to right
split(s, sep) ==
    IF ~contains(s, sep) THEN <<s>>
    ELSE LET i == find(s, sep)
         IN  <<SubSeq(s, 1, i - 1)>> \o split(SubSeq(s, i + Len(sep), Len(s)), sep)

RECURSIVE join(_, _)
\* sep.join(parts)
join(parts, sep) ==
    IF parts = <<>> THEN <<>>
    ELSE IF Len(parts) = 1 THEN parts[1]
    ELSE parts[1] \o sep \o join(Tail(parts), sep)

Whitespace == {" ", "\t", "\n"}

RECURSIVE lstrip(_)
lstrip(s) == IF s # <<>> /\ s[1] \in Whitespace THEN lstrip(Tail(s)) ELSE s

RECURSIVE rstrip(_)
rstrip(s) ==
    IF s # <<>> /\ s[Len(s)] \in Whitespace THEN rstrip(SubSeq(s, 1, Len(s) - 1)) ELSE s

\* s.strip()
strip(s) == rstrip(lstrip(s))

DigitValue ==
    ("0" :> 0) @@ ("1" :> 1) @@ ("2" :> 2) @@ ("3" :> 3) @@ ("4" :> 4) @@
    ("5" :> 5) @@ ("6" :> 6) @@ ("7" :> 7) @@ ("8" :> 8) @@ ("9" :> 9)

IsDigit(c) == c \in DOMAIN DigitValue

\* the digits and underscores of an int() literal, after the sign
IntBody(s) ==
    LET t == strip(s)
    IN  IF t # <<>> /\ t[1] \in {"+", "-"} THEN Tail(t) ELSE t

\* int(s) does not raise ValueError: optional surrounding whitespace, an
\* optional sign, then digits with single underscores between digits
int_ok(s) ==
    LET b == IntBody(s)
    IN  /\ b # <<>>
        /\ IsDigit(b[1])
        /\ IsDigit(b[Len(b)])
        /\ \A i \in 1..Len(b) : IsDigit(b[i]) \/ b[i] = "_"
        /\ \A i \in 1..(Len(b) - 1) : ~(b[i] = "_" /\ b[i + 1] = "_")

RECURSIVE DigitsValue(_, _)
DigitsValue(b, acc) ==
    IF b = <<>> THEN acc
    ELSE IF b[1] = "_" THEN DigitsValue(Tail(b), acc)
    ELSE DigitsValue(Tail(b), 10 * acc + DigitValue[b[1]])

\* int(s), for s with int_ok(s)
int(s) ==
    LET t == strip(s)
        v == DigitsValue(IntBody(s), 0)
    IN  IF t[1] = "-" THEN 0 - v ELSE v

(***************************************************************************)
(* parse_date                                                              *)
(***************************************************************************)
STRIKE == <<"~", "~">>
UNDERSCORE == <<"_">>
COLON_SPACE == <<":", " ">>
SLASH == <<"/">>
ASTERISK == <<"*">>

\* lines 88-93
is_strikethrough(entry) == startswith(entry, STRIKE) /\ endswith(entry, STRIKE)

after_strike(entry) == IF is_strikethrough(entry) THEN slice(entry, 2, 2) ELSE entry

\* lines 95-99, on the entry after lines 88-93
is_italic(w) ==
    startswith(w, UNDERSCORE) /\ endswith(w, UNDERSCORE)
    /\ ~startswith(w, UNDERSCORE \o UNDERSCORE)

working_entry(entry) ==
    LET w == after_strike(entry)
    IN  IF is_italic(w) THEN slice(w, 1, 1) ELSE w

\* lines 106-109: the try block up to the range test; a ValueError of int()
\* is caught by the bare except and falls through to line 122
valid_date(potential_date) ==
    LET parts == split(potential_date, SLASH)
    IN  /\ int_ok(parts[1])
        /\ int_ok(parts[2])
        /\ 1 <= int(parts[1]) /\ int(parts[1]) <= 12
        /\ 1 <= int(parts[2]) /\ int(parts[2]) <= 31

\* mutant of remaining_text: the markers put back in the opposite order
remaining_text_italic_outermost(entry) ==
    LET w  == working_entry(entry)
        r0 == join(Tail(split(w, COLON_SPACE)), COLON_SPACE)
        r1 == IF is_strikethrough(entry) THEN STRIKE \o r0 \o STRIKE ELSE r0
    IN  IF is_italic(after_strike(entry)) THEN UNDERSCORE \o r1 \o UNDERSCORE ELSE r1

\* lines 111-116
remaining_text(entry) ==
    LET w  == working_entry(entry)
        r0 == join(Tail(split(w, COLON_SPACE)), COLON_SPACE)
        r1 == IF is_italic(after_strike(entry)) THEN UNDERSCORE \o r0 \o UNDERSCORE ELSE r0
    IN  IF is_strikethrough(entry) THEN STRIKE \o r1 \o STRIKE ELSE r1

\* mutant of no_date: the stripped entry is returned
no_date_stripped(entry) == [date |-> None, text |-> working_entry(entry)]

\* line 122
no_date(entry) == [date |-> None, text |-> entry]

parse_date(entry) ==
    LET w == working_entry(entry)
    IN  IF contains(w, COLON_SPACE)
        THEN LET potential_date == split(w, COLON_SPACE)[1]
             IN  IF contains(potential_date, SLASH) /\ Len(potential_date) <= 5
                    /\ valid_date(potential_date)
                 THEN [date |-> potential_date, text |-> remaining_text(entry)]
                 ELSE no_date(entry)
        ELSE no_date(entry)

(***************************************************************************)
(* date_sort_key                                                           *)
(***************************************************************************)
RESIGNED_KEY == <<1900, 1, 1>>
UNDATED_KEY  == <<2099, 12, 31>>

\* mutant of offseason_year: September counted with the new year
offseason_year_after_september(month) == IF month > 9 THEN 2025 ELSE 2026

\* line 138
offseason_year(month) == IF month >= 9 THEN 2025 ELSE 2026

\* mutant of date_sort_key: an undated entry is never taken as re-signed
date_sort_key_no_resigned(t) ==
    IF t.date = None
    THEN UNDATED_KEY
    ELSE LET parts == split(t.date, SLASH)
         IN  IF Len(parts) >= 2 /\ int_ok(parts[1]) /\ int_ok(parts[2])
             THEN <<offseason_year(int(parts[1])), int(parts[1]), int(parts[2])>>
             ELSE UNDATED_KEY

date_sort_key(t) ==
    IF t.date = None
    THEN IF contains(t.entry, ASTERISK) \/ contains(t.raw, ASTERISK)
         THEN RESIGNED_KEY
         ELSE UNDATED_KEY
    ELSE LET parts == split(t.date, SLASH)
         IN  IF Len(parts) >= 2 /\ int_ok(parts[1]) /\ int_ok(parts[2])
             THEN <<offseason_year(int(parts[1])), int(parts[1]), int(parts[2])>>
             ELSE UNDATED_KEY

\* Python's < on 3-tuples of integers
KeyLess(a, b) ==
    \/ a[1] < b[1]
    \/ a[1] = b[1] /\ a[2] < b[2]
    \/ a[1] = b[1] /\ a[2] = b[2] /\ a[3] < b[3]

(***************************************************************************)
(* Entry harness: parse_date and date_sort_key applied to one raw string.  *)
(***************************************************************************)
RECURSIVE StringsUpTo(_, _)
\* the strings over alphabet of at most n characters
StringsUpTo(alphabet, n) ==
    IF n = 0 THEN {<<>>}
    ELSE LET shorter == StringsUpTo(alphabet, n - 1)
         IN  shorter \cup {Append(s, c) : s \in shorter, c \in alphabet}

DigitAlphabet == {"0", "1", "3", "9"}
TailAlphabet  == {"*", ":", " "}

Numerals == StringsUpTo(DigitAlphabet, MaxDigits)

\* month and day parts that are no plain numeral
OddMonths == {<<"+", "1">>, <<"-", "1">>, <<" ", "1">>, <<"1", "_", "0">>, <<"x">>,
              <<"+", "1", "1">>}
OddDays   == {<<"3", "/", "1">>, <<"3", "/", "x">>, <<" ", "3">>, <<"+", "3">>, <<"x">>,
              <<"3", "_", "1">>}
FewMonths == {<<"1">>, <<"9">>, <<"1", "1">>, <<"1", "3">>}
FewDays   == {<<"1">>, <<"3", "1">>, <<"3", "3">>}

\* the text before the delimiter: one part ranges over all numerals and the
\* odd parts while the other part takes a few values; with and without '/'
Heads ==
    LET pairs == ((Numerals \cup OddMonths) \X FewDays)
                 \cup (FewMonths \X (Numerals \cup OddDays))
    IN  {p[1] \o SLASH \o p[2] : p \in pairs} \cup {p[1] \o p[2] : p \in pairs}

Delimiters == {COLON_SPACE, <<":">>}

Tails == StringsUpTo(TailAlphabet, MaxTail)

\* the markers around the whole entry: <<front, back>>
Wrappers ==
    { <<<<>>, <<>>>>,
      <<STRIKE, STRIKE>>,
      <<UNDERSCORE, UNDERSCORE>>,
      <<STRIKE \o UNDERSCORE, UNDERSCORE \o STRIKE>>,
      <<UNDERSCORE \o STRIKE, STRIKE \o UNDERSCORE>>,
      <<UNDERSCORE \o UNDERSCORE, UNDERSCORE \o UNDERSCORE>> }

\* the entry made of a head, a delimiter and a tail inside the markers w
RawInput(w, h, d, t) == w[1] \o h \o d \o t \o w[2]

\* the dict parse_excel builds for a cell, as far as date_sort_key reads it
EntryTxn(raw, res) == [date |-> res.date, entry |-> res.text, raw |-> raw]

InitSiteIdle ==
    /\ workbook = <<>>
    /\ pc = "idle"
    /\ all_transactions = <<>>
    /\ team_data = <<>>
    /\ files = <<>>
    /\ todo = <<>>

InitEntry ==
    /\ \E w \in Wrappers : \E h \in Heads : \E d \in Delimiters : \E t \in Tails :
          raw_entry = RawInput(w, h, d, t)
    /\ parsed = None
    /\ sort_key = None
    /\ markup = None
    /\ epc = "parse_date"
    /\ InitSiteIdle

CallParseDate ==
    /\ epc = "parse_date"
    /\ parsed' = parse_date(raw_entry)
    /\ epc' = "date_sort_key"
    /\ UNCHANGED <<raw_entry, sort_key, markup>>
    /\ UNCHANGED site_vars

CallDateSortKey ==
    /\ epc = "date_sort_key"
    /\ sort_key' = date_sort_key(EntryTxn(raw_entry, parsed))
    /\ epc' = "done"
    /\ UNCHANGED <<raw_entry, parsed, markup>>
    /\ UNCHANGED site_vars

NextEntry == CallParseDate \/ CallDateSortKey

SpecEntry == InitEntry /\ [][NextEntry]_vars

(***************************************************************************)
(* parse_excel.  A sheet is [name, df]; df is the grid pandas reads with   *)
(* header=None: df[1] is row 0, df[2] the header row (df.iloc[1]) and      *)
(* df[3], ... the data rows; columns count from 1 (Python's index + 1).    *)
(* A transaction carries oid, the identity of its dict object: the sheet,  *)
(* row and column of the cell it was built from.                           *)
(***************************************************************************)
\* str.lower()
lower(s) == [i \in 1..Len(s) |-> IF s[i] \in DOMAIN LowerCase THEN LowerCase[s[i]] ELSE s[i]]

\* line 152
skip_sheet(team_abbr) == team_abbr = INDY_BALL \/ team_abbr \notin DOMAIN TEAM_INFO

\* lines 158-166: column index -> stripped header, for the non-NaN header cells
headers(df) == [i \in {j \in 1..Len(df[2]) : df[2][j] # NaN} |-> strip(df[2][i])]

\* line 174
skip_col(col_name) == col_name \in SKIP_COLS \/ col_name = <<>>

\* mutant of has_paired_col: a 'New Team' column anywhere in the sheet pairs
has_paired_col_anywhere(df, col_idx) ==
    /\ headers(df)[col_idx] \in PAIRABLE_COLS
    /\ col_idx + 1 \in DOMAIN headers(df)
    /\ \E i \in DOMAIN headers(df) : headers(df)[i] = NEW_TEAM

\* lines 178-181: paired_col_idx is not None
has_paired_col(df, col_idx) ==
    /\ headers(df)[col_idx] \in PAIRABLE_COLS
    /\ col_idx + 1 \in DOMAIN headers(df)
    /\ headers(df)[col_idx + 1] = NEW_TEAM

\* mutant of has_text: a cell of blanks counts as text
has_text_untrimmed(cell) == cell # NaN

\* lines 185 and 193: pd.notna(cell) and str(cell).strip()
has_text(cell) == cell # NaN /\ strip(cell) # <<>>

\* lines 190-194
paired_value(df, row_idx, col_idx) ==
    IF has_paired_col(df, col_idx) /\ has_text(df[row_idx][col_idx + 1])
    THEN strip(df[row_idx][col_idx + 1])
    ELSE None

\* line 196
is_mlb(col_name) == col_name \in MLB_RELEVANT_COLS

\* lines 186-207
make_txn(sheet_no, team_abbr, df, row_idx, col_idx) ==
    LET col_name == headers(df)[col_idx]
        raw      == strip(df[row_idx][col_idx])
        res      == parse_date(raw)
    IN  [team_abbr    |-> team_abbr,
         team         |-> TEAM_INFO[team_abbr].name,
         category     |-> col_name,
         date         |-> res.date,
         entry        |-> res.text,
         raw          |-> raw,
         is_mlb       |-> is_mlb(col_name),
         paired_value |-> paired_value(df, row_idx, col_idx),
         oid          |-> <<sheet_no, row_idx, col_idx>>]

RECURSIVE column_transactions(_, _, _, _, _)
\* lines 183-210: the rows of one column, from row_idx down
column_transactions(sheet_no, team_abbr, df, col_idx, row_idx) ==
    IF row_idx > Len(df) THEN <<>>
    ELSE (IF has_text(df[row_idx][col_idx])
          THEN <<make_txn(sheet_no, team_abbr, df, row_idx, col_idx)>>
          ELSE <<>>)
         \o column_transactions(sheet_no, team_abbr, df, col_idx, row_idx + 1)

RECURSIVE sheet_transactions(_, _, _, _)
\* lines 173-210: the columns of one sheet, from col_idx on, in append order
sheet_transactions(sheet_no, team_abbr, df, col_idx) ==
    IF col_idx > Len(df[2]) THEN <<>>
    ELSE (IF col_idx \in DOMAIN headers(df) /\ ~skip_col(headers(df)[col_idx])
          THEN column_transactions(sheet_no, team_abbr, df, col_idx, 3)
          ELSE <<>>)
         \o sheet_transactions(sheet_no, team_abbr, df, col_idx + 1)

RECURSIVE bucket_names(_, _, _)
\* line 169: the keys of the dict comprehension, in order of first occurrence
bucket_names(df, col_idx, seen) ==
    IF col_idx > Len(df[2]) THEN <<>>
    ELSE IF /\ col_idx \in DOMAIN headers(df)
            /\ headers(df)[col_idx] \notin SKIP_COLS
            /\ headers(df)[col_idx] \notin seen
         THEN <<headers(df)[col_idx]>>
              \o bucket_names(df, col_idx + 1, seen \cup {headers(df)[col_idx]})
         ELSE bucket_names(df, col_idx + 1, seen)

\* mutant of bucket: every transaction of the sheet is appended to the bucket
bucket_of_any_category(txns, col) == [col |-> col, txns |-> txns]

\* line 210: the bucket of col holds the appended transactions of that category
bucket(txns, col) ==
    LET InCol(t) == t.category = col
    IN  [col |-> col, txns |-> SelectSeq(txns, InCol)]

\* lines 169-170 and 210: team_data[team_abbr] after the sheet is read, as the
\* list of its (key, list) pairs in insertion order; '_paired' maps to {}
team_entry(sheet_no, team_abbr, df) ==
    LET txns  == sheet_transactions(sheet_no, team_abbr, df, 1)
        names == bucket_names(df, 1, {})
    IN  [team_abbr |-> team_abbr,
         cols      |-> [i \in 1..Len(names) |-> bucket(txns, names[i])]
                       \o <<[col |-> PAIRED_KEY, txns |-> <<>>]>>]

RECURSIVE appended_transactions(_, _)
\* lines 151-210: all_transactions before the sort, sheets from sheet_no on
appended_transactions(wb, sheet_no) ==
    IF sheet_no > Len(wb) THEN <<>>
    ELSE (IF skip_sheet(wb[sheet_no].name) THEN <<>>
          ELSE sheet_transactions(sheet_no, wb[sheet_no].name, wb[sheet_no].df, 1))
         \o appended_transactions(wb, sheet_no + 1)

RECURSIVE read_team_data_before_skip(_, _)
\* mutant of read_team_data: team_data[team_abbr] is set up before the sheet
\* name is tested
read_team_data_before_skip(wb, sheet_no) ==
    IF sheet_no > Len(wb) THEN <<>>
    ELSE (IF skip_sheet(wb[sheet_no].name)
          THEN <<[team_abbr |-> wb[sheet_no].name,
                  cols      |-> <<[col |-> PAIRED_KEY, txns |-> <<>>]>>]>>
          ELSE <<team_entry(sheet_no, wb[sheet_no].name, wb[sheet_no].df)>>)
         \o read_team_data_before_skip(wb, sheet_no + 1)

RECURSIVE read_team_data(_, _)
\* lines 151-210: team_data, sheets from sheet_no on
read_team_data(wb, sheet_no) ==
    IF sheet_no > Len(wb) THEN <<>>
    ELSE (IF skip_sheet(wb[sheet_no].name) THEN <<>>
          ELSE <<team_entry(sheet_no, wb[sheet_no].name, wb[sheet_no].df)>>)
         \o read_team_data(wb, sheet_no + 1)

\* mutant of insert_by_key: t is put before the elements of equal key
insert_before_equal_keys(r, t) ==
    LET n == Cardinality({i \in 1..Len(r) :
                             KeyLess(date_sort_key(r[i]), date_sort_key(t))})
    IN  SubSeq(r, 1, n) \o <<t>> \o SubSeq(r, n + 1, Len(r))

\* the place list.sort and sorted put t in the already sorted r: behind every
\* element whose key is not greater (the sort is stable)
insert_by_key(r, t) ==
    LET n == Cardinality({i \in 1..Len(r) :
                             ~KeyLess(date_sort_key(t), date_sort_key(r[i]))})
    IN  SubSeq(r, 1, n) \o <<t>> \o SubSeq(r, n + 1, Len(r))

\* mutant of sorted: the list is left in the order it has
sorted_not_at_all(txns) == txns

RECURSIVE sorted(_)
\* sorted(txns, key=date_sort_key) and txns.sort(key=date_sort_key)
sorted(txns) ==
    IF txns = <<>> THEN <<>>
    ELSE insert_by_key(sorted(SubSeq(txns, 1, Len(txns) - 1)), txns[Len(txns)])

\* lines 144-215
parse_excel(wb) ==
    [all_transactions |-> sorted(appended_transactions(wb, 1)),
     team_data        |-> read_team_data(wb, 1)]

(***************************************************************************)
(* Rendering: a page is the list of its accordion sections; a section is   *)
(* its title, its displayed count and its list items, each a subheader or  *)
(* the item of one transaction.                                            *)
(***************************************************************************)
RECURSIVE flatten(_)
\* lines 278-280
flatten(transactions_by_col) ==
    IF transactions_by_col = <<>> THEN <<>>
    ELSE transactions_by_col[1].txns \o flatten(Tail(transactions_by_col))

\* lines 299-308 and 314-323
transaction_items(txns) ==
    [i \in 1..Len(txns) |-> [kind |-> "transaction-item", t |-> txns[i]]]

\* line 295
subheader_label(col) ==
    IF col \in DOMAIN SUBHEADER_LABELS THEN SUBHEADER_LABELS[col] ELSE col

RECURSIVE subheader_items(_)
\* lines 291-308
subheader_items(transactions_by_col) ==
    IF transactions_by_col = <<>> THEN <<>>
    ELSE (IF transactions_by_col[1].txns = <<>> THEN <<>>
          ELSE <<[kind |-> "subheader", label |-> subheader_label(transactions_by_col[1].col)]>>
               \o transaction_items(sorted(transactions_by_col[1].txns)))
         \o subheader_items(Tail(transactions_by_col))

\* mutant of generate_accordion_section: use_subheaders is ignored and every
\* section renders one merged, sorted list
generate_accordion_section_always_merged(title, transactions_by_col, use_subheaders) ==
    LET all == flatten(transactions_by_col)
    IN  IF all = <<>> THEN <<>>
        ELSE <<[title |-> title,
                count |-> Len(all),
                items |-> transaction_items(sorted(all))]>>

\* lines 275-340; '' is the empty list of sections
generate_accordion_section(title, transactions_by_col, use_subheaders) ==
    LET all == flatten(transactions_by_col)
    IN  IF all = <<>> THEN <<>>
        ELSE <<[title |-> title,
                count |-> Len(all),
                items |-> IF use_subheaders /\ Len(transactions_by_col) > 1
                          THEN subheader_items(transactions_by_col)
                          ELSE transaction_items(sorted(all))]>>

\* lines 354-358: team_data[col] if col in team_data, else []
column_of(team_cols, col) ==
    LET hits == {i \in 1..Len(team_cols) : team_cols[i].col = col}
    IN  IF hits = {} THEN [col |-> col, txns |-> <<>>]
        ELSE team_cols[CHOOSE i \in hits : TRUE]

RECURSIVE accordion_html(_, _)
\* lines 351-370, sections from section_no on
accordion_html(team_cols, section_no) ==
    IF section_no > Len(ACCORDION_SECTIONS) THEN <<>>
    ELSE LET section == ACCORDION_SECTIONS[section_no]
             transactions_by_col ==
                 [i \in 1..Len(section.columns) |-> column_of(team_cols, section.columns[i])]
             has_transactions ==
                 \E i \in 1..Len(transactions_by_col) : Len(transactions_by_col[i].txns) > 0
         IN  (IF has_transactions
              THEN generate_accordion_section(section.title, transactions_by_col,
                                              section.subheaders)
              ELSE <<>>)
             \o accordion_html(team_cols, section_no + 1)

\* lines 343-428
generate_team_page(team_abbr, team_cols) ==
    [team_name |-> TEAM_INFO[team_abbr].name,
     sections  |-> accordion_html(team_cols, 1)]

\* lines 431-441: the hrefs of the team grid (sorted(TEAM_INFO.keys()) is the
\* alphabetical order; as a set here)
team_grid_hrefs == {lower(abbr) \o DOT_HTML : abbr \in DOMAIN TEAM_INFO}

\* mutant of write_file: the file is opened to append, what it held stays
write_file_appending(fs, name, page) == Append(fs, [name |-> name, page |-> page])

\* open(path, 'w') and write: the file is created or replaced
write_file(fs, name, page) ==
    IF \E i \in 1..Len(fs) : fs[i].name = name
    THEN [i \in 1..Len(fs) |-> IF fs[i].name = name THEN [name |-> name, page |-> page] ELSE fs[i]]
    ELSE Append(fs, [name |-> name, page |-> page])

\* line 1255
team_file_name(team_abbr) == lower(team_abbr) \o DOT_HTML

(***************************************************************************)
(* The workbooks build_site is run on.                                     *)
(***************************************************************************)
ARI == <<"A", "R", "I">>
BOS == <<"B", "O", "S">>
XYZ == <<"X", "Y", "Z">>

SheetNames == {ARI, BOS, INDY_BALL, XYZ}

RECURSIVE NameLists(_)
\* the lists of at most n sheet names, no name twice
NameLists(n) ==
    IF n = 0 THEN {<<>>}
    ELSE LET shorter == NameLists(n - 1)
         IN  shorter \cup
             {Append(l, nm) : <<l, nm>> \in
                 {q \in shorter \X SheetNames :
                     Len(q[1]) = n - 1 /\ \A i \in 1..Len(q[1]) : q[1][i] # q[2]}}

HeaderCells ==
    { NaN,
      <<"R", "e", "l", "e", "a", "s", "e", "d">>,
      NEW_TEAM,
      <<"T", "r", "a", "d", "e", "d", " ", "F", "o", "r">>,
      <<"T", "r", "a", "d", "e", "d", " ", "A", "w", "a", "y">>,
      <<"M", "L", "B", " ", "S", "i", "g", "n", "i", "n", "g">> }

CellValues ==
    { <<"9", "/", "1", ":", " ", "a">>,
      <<"1", "/", "3", ":", " ", "b", "*">>,
      <<"c", "*">>,
      <<"d">>,
      <<"1", "/", "3", "/", "1", ":", " ", "e">> }

\* row 0 of every sheet: a title in the first column
TITLE == <<"9", "/", "1", ":", " ", "t">>

\* the data rows of each sheet of a workbook of n sheets
NumRows(n) == TotalRows \div n

\* the data cells of a workbook of n sheets, numbered sheet by sheet, row by row
NumPositions(n) == n * NumRows(n) * NumCols

position(n, sheet_no, data_row, col_idx) ==
    ((sheet_no - 1) * NumRows(n) + (data_row - 1)) * NumCols + col_idx

RECURSIVE Fillings(_, _)
\* the ways to fill at most k of the positions 1..n; a filling is the function
\* from the filled positions to their cell values
Fillings(n, k) ==
    IF k = 0 THEN {<<>>}
    ELSE LET fewer == Fillings(n, k - 1)
         IN  fewer \cup
             {q[1] @@ (q[2] :> q[3]) : q \in
                 {r \in fewer \X (1..n) \X CellValues :
                     /\ Cardinality(DOMAIN r[1]) = k - 1
                     /\ \A i \in DOMAIN r[1] : i < r[2]}}

\* the grid of sheet sheet_no of n: the title row, the header row, the data rows
Grid(header_row, filling, n, sheet_no) ==
    <<[c \in 1..NumCols |-> IF c = 1 THEN TITLE ELSE NaN], header_row>>
    \o [r \in 1..NumRows(n) |->
           [c \in 1..NumCols |->
               IF position(n, sheet_no, r, c) \in DOMAIN filling
               THEN filling[position(n, sheet_no, r, c)]
               ELSE NaN]]

\* the workbook of the sheets named name_list; every sheet of a workbook has
\* the same header row
Workbook(name_list, header_row, filling) ==
    [i \in 1..Len(name_list) |->
        [name |-> name_list[i],
         df   |-> Grid(header_row, filling, Len(name_list), i)]]

(***************************************************************************)
(* build_site                                                              *)
(***************************************************************************)
InitEntryIdle ==
    /\ raw_entry = <<>>
    /\ parsed = None
    /\ sort_key = None
    /\ markup = None
    /\ epc = "idle"

Init ==
    /\ \E name_list \in NameLists(MaxSheets) \ {<<>>} :
          \E header_row \in [1..NumCols -> HeaderCells] :
             \E filling \in Fillings(NumPositions(Len(name_list)), MaxCells) :
                workbook = Workbook(name_list, header_row, filling)
    /\ pc = "parse_excel"
    /\ all_transactions = <<>>
    /\ team_data = <<>>
    /\ files = <<>>
    /\ todo = <<>>
    /\ InitEntryIdle

\* line 1235
ParseExcel ==
    /\ pc = "parse_excel"
    /\ LET result == parse_excel(workbook)
       IN  /\ all_transactions' = result.all_transactions
           /\ team_data' = result.team_data
    /\ pc' = "index"
    /\ UNCHANGED <<workbook, files, todo>>
    /\ UNCHANGED entry_vars

\* lines 1239-1250; the loop of line 1253 then starts over the keys of team_data
WriteIndex ==
    /\ pc = "index"
    /\ files' = write_file(files, INDEX_HTML, [team_name |-> "", sections |-> <<>>])
    /\ todo' = [i \in 1..Len(team_data) |-> team_data[i].team_abbr]
    /\ pc' = "teams"
    /\ UNCHANGED <<workbook, all_transactions, team_data>>
    /\ UNCHANGED entry_vars

\* mutant of WriteTeamPage: the page is rendered with txns.sort() in place of
\* sorted(txns), so the buckets of the team are left sorted by date
WriteTeamPageSortingInPlace ==
    /\ pc = "teams"
    /\ todo # <<>>
    /\ LET team_abbr == Head(todo)
           i == CHOOSE j \in 1..Len(team_data) : team_data[j].team_abbr = team_abbr
       IN  /\ files' = write_file(files, team_file_name(team_abbr),
                                  generate_team_page(team_abbr, team_data[i].cols))
           /\ team_data' =
                  [team_data EXCEPT ![i].cols =
                      [k \in 1..Len(team_data[i].cols) |->
                          [col  |-> team_data[i].cols[k].col,
                           txns |-> sorted(team_data[i].cols[k].txns)]]]
    /\ todo' = Tail(todo)
    /\ UNCHANGED <<workbook, pc, all_transactions>>
    /\ UNCHANGED entry_vars

\* lines 1253-1256: one turn of the loop
WriteTeamPage ==
    /\ pc = "teams"
    /\ todo # <<>>
    /\ LET team_abbr == Head(todo)
           i == CHOOSE j \in 1..Len(team_data) : team_data[j].team_abbr = team_abbr
       IN  files' = write_file(files, team_file_name(team_abbr),
                               generate_team_page(team_abbr, team_data[i].cols))
    /\ todo' = Tail(todo)
    /\ UNCHANGED <<workbook, pc, all_transactions, team_data>>
    /\ UNCHANGED entry_vars

\* lines 1258-1259
Finish ==
    /\ pc = "teams"
    /\ todo = <<>>
    /\ pc' = "done"
    /\ UNCHANGED <<workbook, all_transactions, team_data, files, todo>>
    /\ UNCHANGED entry_vars

Next == ParseExcel \/ WriteIndex \/ WriteTeamPage \/ Finish

Spec == Init /\ [][Next]_vars

(***************************************************************************)
(* Properties of the entry parser and the sort key (SpecEntry).            *)
(***************************************************************************)
\* a month or day as the spec writes it: one or two decimal digits
PlainNumeral(s) == Len(s) \in {1, 2} /\ \A i \in 1..Len(s) : IsDigit(s[i])

NumeralValue(s) ==
    IF Len(s) = 1 THEN DigitValue[s[1]] ELSE 10 * DigitValue[s[1]] + DigitValue[s[2]]

\* d is "M/D" with 1 <= M <= 12 and 1 <= D <= 31
IsMonthDay(d) ==
    /\ Cardinality(Occurrences(d, SLASH)) = 1
    /\ LET i == find(d, SLASH)
       IN  /\ PlainNumeral(SubSeq(d, 1, i - 1))
           /\ PlainNumeral(SubSeq(d, i + 1, Len(d)))
           /\ NumeralValue(SubSeq(d, 1, i - 1)) \in 1..12
           /\ NumeralValue(SubSeq(d, i + 1, Len(d))) \in 1..31

MonthOf(d) == NumeralValue(SubSeq(d, 1, find(d, SLASH) - 1))
DayOf(d)   == NumeralValue(SubSeq(d, find(d, SLASH) + 1, Len(d)))

\* s is "M/D: text": a month/day up to the first ": "
IsMonthDayText(s) ==
    /\ contains(s, COLON_SPACE)
    /\ IsMonthDay(SubSeq(s, 1, find(s, COLON_SPACE) - 1))

DateOf(s) == SubSeq(s, 1, find(s, COLON_SPACE) - 1)
TextOf(s) == SubSeq(s, find(s, COLON_SPACE) + 2, Len(s))

\* the markers an entry can be wrapped in, <<front, back>>: none, ~~...~~,
\* _..._ and ~~_..._~~
MarkerPairs ==
    { <<<<>>, <<>>>>,
      <<STRIKE, STRIKE>>,
      <<UNDERSCORE, UNDERSCORE>>,
      <<STRIKE \o UNDERSCORE, UNDERSCORE \o STRIKE>> }

Inside(s, m) == SubSeq(s, Len(m[1]) + 1, Len(s) - Len(m[2]))

\* s is an "M/D: text" wrapped in the markers m
WrappedMonthDayText(s, m) ==
    /\ Len(s) >= Len(m[1]) + Len(m[2])
    /\ startswith(s, m[1])
    /\ endswith(s, m[2])
    /\ IsMonthDayText(Inside(s, m))

\* C1: for a raw input "M/D: text" with 1 <= M <= 12 and 1 <= D <= 31, bare or
\* wrapped as a whole in ~~...~~, _..._ or ~~_..._~~, parse_date returns the
\* date "M/D" and the text after the first ": " with the same markers put
\* back around it, italic innermost and strikethrough outermost.
C1_DateAndText ==
    epc # "parse_date" =>
        \A m \in MarkerPairs :
            WrappedMonthDayText(raw_entry, m) =>
                parsed = [date |-> DateOf(Inside(raw_entry, m)),
                          text |-> m[1] \o TextOf(Inside(raw_entry, m)) \o m[2]]

\* a wrapped entry "~~_M/D: text_~~" whose text holds a second ": " was parsed
C1_Witness ==
    /\ epc = "done"
    /\ WrappedMonthDayText(raw_entry, <<STRIKE \o UNDERSCORE, UNDERSCORE \o STRIKE>>)
    /\ contains(parsed.text, COLON_SPACE)
    /\ parsed.date # None

\* the head is no valid date, in the ways the claim lists: no '/', longer than
\* 5 characters, a month or day part (the text before the first '/', the text
\* after it up to the next one) that is no integer, month or day out of range
InvalidHead(h) ==
    \/ ~contains(h, SLASH)
    \/ Len(h) > 5
    \/ ~int_ok(split(h, SLASH)[1])
    \/ ~int_ok(split(h, SLASH)[2])
    \/ int(split(h, SLASH)[1]) \notin 1..12
    \/ int(split(h, SLASH)[2]) \notin 1..31

\* the head of the entry: the text before the first ": ", after the markers
\* around the whole entry were stripped
HeadOf(entry) ==
    SubSeq(working_entry(entry), 1, find(working_entry(entry), COLON_SPACE) - 1)

C5_OffseasonKey ==
    (epc = "done" /\ parsed.date # None /\ IsMonthDay(parsed.date)) =>
        /\ sort_key = <<IF MonthOf(parsed.date) >= 9 THEN 2025 ELSE 2026,
                        MonthOf(parsed.date), DayOf(parsed.date)>>
        /\ MonthOf(parsed.date) >= 9 <=> KeyLess(sort_key, <<2026, 1, 1>>)

\* the key of an entry dated in September was computed
C5_Witness ==
    /\ epc = "done"
    /\ parsed.date # None
    /\ IsMonthDay(parsed.date)
    /\ MonthOf(parsed.date) = 9
    /\ sort_key[1] = 2025

(***************************************************************************)
(* Properties of the corpus, the pages and the output files (Spec).        *)
(***************************************************************************)
HasAsterisk(t) == contains(t.raw, ASTERISK)

Dated(t) == t.date # None

\* the pages written so far, index.html aside
TeamFiles == {f \in 1..Len(files) : files[f].name # INDEX_HTML}

FileNames == {files[f].name : f \in 1..Len(files)}

IsItem(item) == item.kind = "transaction-item"

\* C3: the date of every transaction is absent or exactly one or two digits,
\* '/', one or two digits, with month in 1..12 and day in 1..31.
C3_DateShape ==
    \A i \in 1..Len(all_transactions) :
        all_transactions[i].date = None \/ IsMonthDay(all_transactions[i].date)

\* the band of a transaction: 1 undated with '*' in raw or text, 2 dated,
\* 3 undated without '*'
Band(t) ==
    IF Dated(t) THEN 2
    ELSE IF contains(t.raw, ASTERISK) \/ contains(t.entry, ASTERISK) THEN 1
    ELSE 3

\* C4: the sort key separates the three bands strictly: for transactions a, b
\* of the corpus, a in a lower band than b has the smaller key.
C4_ThreeBands ==
    \A i, j \in 1..Len(all_transactions) :
        Band(all_transactions[i]) < Band(all_transactions[j]) =>
            KeyLess(date_sort_key(all_transactions[i]), date_sort_key(all_transactions[j]))

\* the corpus holds an undated re-signed entry and a dated one
C4_Witness ==
    /\ pc = "done"
    /\ \E i, j \in 1..Len(all_transactions) :
          Band(all_transactions[i]) = 1 /\ Band(all_transactions[j]) = 2

\* items a and b of a section lie in the same sorted list: no subheader at or
\* between them
SameList(items, a, b) ==
    \A k \in 1..Len(items) :
        ((a <= k /\ k <= b) \/ (b <= k /\ k <= a)) => IsItem(items[k])

\* C6 as stated: every transaction whose raw holds '*' precedes every dated
\* transaction whose raw holds none, in the flat list and in the item list
\* of every rendered section that holds both.
C6_AsteriskBeforeDated ==
    /\ \A i, j \in 1..Len(all_transactions) :
          (/\ HasAsterisk(all_transactions[i])
           /\ Dated(all_transactions[j])
           /\ ~HasAsterisk(all_transactions[j])) => i < j
    /\ \A f \in TeamFiles : \A k \in 1..Len(files[f].page.sections) :
          LET items == files[f].page.sections[k].items
          IN  \A a, b \in 1..Len(items) :
                 (/\ IsItem(items[a]) /\ IsItem(items[b])
                  /\ HasAsterisk(items[a].t)
                  /\ Dated(items[b].t)
                  /\ ~HasAsterisk(items[b].t)) => a < b

\* C6, amended: every undated transaction whose raw holds '*' precedes every
\* dated transaction in the flat list and in every sorted list of a rendered
\* section that holds both: the whole item list of a section, or the items
\* under one subheader of a subheader section.
C6_UndatedAsteriskBeforeDated ==
    /\ \A i, j \in 1..Len(all_transactions) :
          (/\ HasAsterisk(all_transactions[i])
           /\ ~Dated(all_transactions[i])
           /\ Dated(all_transactions[j])) => i < j
    /\ \A f \in TeamFiles : \A k \in 1..Len(files[f].page.sections) :
          LET items == files[f].page.sections[k].items
          IN  \A a, b \in 1..Len(items) :
                 (/\ SameList(items, a, b)
                  /\ HasAsterisk(items[a].t)
                  /\ ~Dated(items[a].t)
                  /\ Dated(items[b].t)) => a < b

\* a rendered list shows an undated re-signed entry before a dated entry that
\* stands above it in the sheet
C6_Witness ==
    \E f \in TeamFiles : \E k \in 1..Len(files[f].page.sections) :
        LET items == files[f].page.sections[k].items
        IN  \E a, b \in 1..Len(items) :
               /\ a < b
               /\ SameList(items, a, b)
               /\ HasAsterisk(items[a].t) /\ ~Dated(items[a].t)
               /\ Dated(items[b].t)
               /\ items[b].t.oid[2] < items[a].t.oid[2]

\* the places of transaction t in the per-team structure: team, bucket, index
Places(t) ==
    {q \in UNION {UNION {{<<i, k, n>> : n \in 1..Len(team_data[i].cols[k].txns)} :
                            k \in 1..Len(team_data[i].cols)} :
                     i \in 1..Len(team_data)} :
        team_data[q[1]].cols[q[2]].txns[q[3]] = t}

BucketTransactions ==
    UNION {UNION {{team_data[i].cols[k].txns[n] : n \in 1..Len(team_data[i].cols[k].txns)} :
                     k \in 1..Len(team_data[i].cols)} :
              i \in 1..Len(team_data)}

\* C7: after parse_excel the flat list and the buckets hold the same
\* transactions: each one once in the flat list and at one place of the
\* structure, in the bucket of its own team_abbr and category.
C7_TwoViews ==
    pc # "parse_excel" =>
        /\ \A a, b \in 1..Len(all_transactions) :
              a # b => all_transactions[a].oid # all_transactions[b].oid
        /\ \A a \in 1..Len(all_transactions) :
              LET t == all_transactions[a]
              IN  /\ Cardinality(Places(t)) = 1
                  /\ \A q \in Places(t) :
                        /\ team_data[q[1]].team_abbr = t.team_abbr
                        /\ team_data[q[1]].cols[q[2]].col = t.category
        /\ BucketTransactions = {all_transactions[a] : a \in 1..Len(all_transactions)}

\* two columns with the same header filled one bucket
C7_Witness ==
    /\ pc = "done"
    /\ \E i \in 1..Len(team_data) : \E k \in 1..Len(team_data[i].cols) :
          LET txns == team_data[i].cols[k].txns
          IN  \E m, n \in 1..Len(txns) : txns[m].oid[3] # txns[n].oid[3]

\* the transactions of team entry i, over all its buckets
TeamTransactions(i) ==
    UNION {{team_data[i].cols[k].txns[n] : n \in 1..Len(team_data[i].cols[k].txns)} :
              k \in 1..Len(team_data[i].cols)}

\* where the page shows transaction t: section, item
Shown(page, t) ==
    {q \in UNION {{<<k, a>> : a \in 1..Len(page.sections[k].items)} :
                     k \in 1..Len(page.sections)} :
        /\ IsItem(page.sections[q[1]].items[q[2]])
        /\ page.sections[q[1]].items[q[2]].t = t}

PageOf(team_abbr) ==
    files[CHOOSE f \in 1..Len(files) : files[f].name = team_file_name(team_abbr)].page

\* the columns the section table maps to the section titled title
SectionColumns(title) ==
    ACCORDION_SECTIONS[CHOOSE n \in 1..Len(ACCORDION_SECTIONS) :
                          ACCORDION_SECTIONS[n].title = title].columns

RECURSIVE MappedCount(_, _)
\* the transactions team entry i holds in the categories cols
MappedCount(i, cols) ==
    IF cols = <<>> THEN 0
    ELSE Len(column_of(team_data[i].cols, cols[1]).txns) + MappedCount(i, Tail(cols))

\* C8: on the page of every team with a sheet, every transaction of the team,
\* whatever its column header, is an item of exactly one section, and every
\* section's displayed count is the number of transactions in its mapped
\* categories and the number of items it renders.
C8_GroupingComplete ==
    \A i \in 1..Len(team_data) :
        team_file_name(team_data[i].team_abbr) \in FileNames =>
            LET page == PageOf(team_data[i].team_abbr)
            IN  /\ \A t \in TeamTransactions(i) : Cardinality(Shown(page, t)) = 1
                /\ \A k \in 1..Len(page.sections) :
                      LET section == page.sections[k]
                      IN  /\ section.count = MappedCount(i, SectionColumns(section.title))
                          /\ section.count =
                                Cardinality({a \in 1..Len(section.items) :
                                                IsItem(section.items[a])})

\* the sheet name is no known team code, or is the exclusion name
NotATeamSheet(name) == name = INDY_BALL \/ name \notin DOMAIN TEAM_INFO

\* a transaction without the identity of its dict object
Content(t) ==
    [team_abbr |-> t.team_abbr, team |-> t.team, category |-> t.category,
     date |-> t.date, entry |-> t.entry, raw |-> t.raw, is_mlb |-> t.is_mlb,
     paired_value |-> t.paired_value]

Contents(txns) == [n \in 1..Len(txns) |-> Content(txns[n])]

TeamDataContents(td) ==
    [i \in 1..Len(td) |->
        [team_abbr |-> td[i].team_abbr,
         cols |-> [k \in 1..Len(td[i].cols) |->
                      [col |-> td[i].cols[k].col, txns |-> Contents(td[i].cols[k].txns)]]]]

\* the workbook without the sheets that are no team sheets
TeamSheetsOnly(wb) ==
    LET IsTeamSheet(sheet) == ~NotATeamSheet(sheet.name)
    IN  SelectSeq(wb, IsTeamSheet)

\* C9: a sheet whose name is no known team code, or is 'Indy Ball', gives no
\* transaction to the flat list and no key to the per-team structure, and
\* the result is the one of the workbook without that sheet.
C9_SkippedSheets ==
    pc # "parse_excel" =>
        /\ \A s \in 1..Len(workbook) :
              NotATeamSheet(workbook[s].name) =>
                  /\ \A a \in 1..Len(all_transactions) :
                        /\ all_transactions[a].oid[1] # s
                        /\ all_transactions[a].team_abbr # workbook[s].name
                  /\ \A i \in 1..Len(team_data) :
                        team_data[i].team_abbr # workbook[s].name
        /\ LET without == parse_excel(TeamSheetsOnly(workbook))
           IN  /\ Contents(all_transactions) = Contents(without.all_transactions)
               /\ TeamDataContents(team_data) = TeamDataContents(without.team_data)

\* a skipped sheet with a filled cell under a category header stood before a
\* team sheet that gave a transaction
C9_Witness ==
    /\ pc = "done"
    /\ Len(all_transactions) > 0
    /\ \E s \in 1..Len(workbook) :
          /\ NotATeamSheet(workbook[s].name)
          /\ \E a \in 1..Len(all_transactions) : all_transactions[a].oid[1] > s
          /\ \E r \in 3..Len(workbook[s].df) : \E c \in 1..Len(workbook[s].df[2]) :
                /\ workbook[s].df[r][c] # NaN
                /\ workbook[s].df[2][c] \notin {NaN, NEW_TEAM}

\* C10: when build_site is done, the output holds index.html and, for every
\* code of the team table, the page the team grid links to: <code>.html.
C10_PagePerKnownTeam ==
    pc = "done" =>
        /\ INDEX_HTML \in FileNames
        /\ \A href \in team_grid_hrefs : href \in FileNames

(***************************************************************************)
(* Markup: html.escape, escape, format_entry and json.dumps of a str.      *)
(***************************************************************************)
NEWLINE == "\n"

\* html.escape(s, quote=True), character by character
HtmlEntity ==
    ("&" :> <<"&", "a", "m", "p", ";">>) @@ ("<" :> <<"&", "l", "t", ";">>) @@
    (">" :> <<"&", "g", "t", ";">>) @@ ("\"" :> <<"&", "q", "u", "o", "t", ";">>) @@
    ("'" :> <<"&", "#", "x", "2", "7", ";">>)

RECURSIVE html_escape(_)
html_escape(s) ==
    IF s = <<>> THEN <<>>
    ELSE (IF s[1] \in DOMAIN HtmlEntity THEN HtmlEntity[s[1]] ELSE <<s[1]>>)
         \o html_escape(Tail(s))

\* line 220: html.escape(str(s)) if s else ''; None and '' are falsy
escape(s) == IF s = None \/ s = <<>> THEN <<>> ELSE html_escape(s)

TILDES == <<"~", "~">>
S_OPEN == <<"<", "s", ">">>
S_CLOSE == <<"<", "/", "s", ">">>
EM_OPEN == <<"<", "e", "m", ">">>
EM_CLOSE == <<"<", "/", "e", "m", ">">>

\* '~~' stands at position i of text
tildes_at(text, i) == i + 1 <= Len(text) /\ text[i] = "~" /\ text[i + 1] = "~"

\* where a match of ~~(.+?)~~ that starts at i has its closing '~~': the
\* first '~~' that leaves at least one character between; 0 when there is
\* none or when a newline ('.' does not match it) stands between
strike_close(text, i) ==
    IF ~tildes_at(text, i) THEN 0
    ELSE LET closes == {j \in (i + 3)..Len(text) : tildes_at(text, j)}
         IN  IF closes = {} THEN 0
             ELSE LET j == CHOOSE j \in closes : \A k \in closes : j <= k
                  IN  IF \E k \in (i + 2)..(j - 1) : text[k] = NEWLINE THEN 0 ELSE j

RECURSIVE sub_strike(_, _)
\* line 232: re.sub(r'~~(.+?)~~', r'<s>\1</s>', text), scanning from i
sub_strike(text, i) ==
    IF i > Len(text) THEN <<>>
    ELSE LET j == strike_close(text, i)
         IN  IF j = 0 THEN <<text[i]>> \o sub_strike(text, i + 1)
             ELSE S_OPEN \o SubSeq(text, i + 2, j - 1) \o S_CLOSE \o sub_strike(text, j + 2)

\* where a match of (?<!_)_([^_]+?)_(?!_) that starts at i has its closing
\* '_': the next '_' after at least one other character, not followed by
\* '_'; 0 when there is no match at i
em_close(text, i) ==
    IF ~(/\ text[i] = "_"
         /\ (i = 1 \/ text[i - 1] # "_")
         /\ i + 1 <= Len(text)
         /\ text[i + 1] # "_")
    THEN 0
    ELSE LET closes == {j \in (i + 2)..Len(text) : text[j] = "_"}
         IN  IF closes = {} THEN 0
             ELSE LET j == CHOOSE j \in closes : \A k \in closes : j <= k
                  IN  IF j + 1 <= Len(text) /\ text[j + 1] = "_" THEN 0 ELSE j

RECURSIVE sub_em(_, _)
\* line 236: re.sub(r'(?<!_)_([^_]+?)_(?!_)', r'<em>\1</em>', text), from i
sub_em(text, i) ==
    IF i > Len(text) THEN <<>>
    ELSE LET j == em_close(text, i)
         IN  IF j = 0 THEN <<text[i]>> \o sub_em(text, i + 1)
             ELSE EM_OPEN \o SubSeq(text, i + 1, j - 1) \o EM_CLOSE \o sub_em(text, j + 1)

\* format_entry with the two conversions before the escaping
format_entry_convert_first(s) ==
    IF s = None \/ s = <<>> THEN <<>>
    ELSE html_escape(sub_em(sub_strike(s, 1), 1))

\* lines 223-238
format_entry(s) ==
    IF s = None \/ s = <<>> THEN <<>>
    ELSE sub_em(sub_strike(html_escape(s), 1), 1)

\* json.dumps of a str over the characters of the model: '"' and '\' get a
\* backslash, a newline becomes \n, every other character stays as it is
JsonEscape ==
    ("\"" :> <<"\\", "\"">>) @@ ("\\" :> <<"\\", "\\">>) @@
    (NEWLINE :> <<"\\", "n">>)

RECURSIVE json_chars(_)
json_chars(s) ==
    IF s = <<>> THEN <<>>
    ELSE (IF s[1] \in DOMAIN JsonEscape THEN JsonEscape[s[1]] ELSE <<s[1]>>)
         \o json_chars(Tail(s))

JSON_NULL == <<"n", "u", "l", "l">>

\* json.dumps of a str or None
json_dumps(s) == IF s = None THEN JSON_NULL ELSE <<"\"">> \o json_chars(s) \o <<"\"">>

(***************************************************************************)
(* The renderers of one transaction: the accordion item, the feed item and *)
(* the search data of the homepage script.  A rendered piece is the record *)
(* of the strings its template embeds.                                     *)
(***************************************************************************)
\* the characters U+2014 and U+2192 of the templates, by name
EM_DASH == <<"EM DASH">>
ARROW == <<" ", "RIGHTWARDS ARROW", " ">>

\* t['date'] if t['date'] else EM DASH (lines 258, 300, 315)
date_str(t) == IF t.date = None \/ t.date = <<>> THEN EM_DASH ELSE t.date

\* lines 300-308 and 315-323: the <li class="transaction-item">
transaction_item(t) ==
    [date_str |-> date_str(t),
     entry    |-> format_entry(t.entry),
     paired   |-> IF t.paired_value = None \/ t.paired_value = <<>> THEN <<>>
                  ELSE ARROW \o escape(t.paired_value)]

\* lines 241-251
get_category_class(category) ==
    IF contains(category, <<"S", "i", "g", "n", "i", "n", "g">>) \/ contains(category, <<"E", "x", "t", "e", "n", "s", "i", "o", "n">>)
    THEN <<"s", "i", "g", "n", "i", "n", "g">>
    ELSE IF contains(category, <<"T", "r", "a", "d", "e">>) THEN <<"t", "r", "a", "d", "e">>
    ELSE IF contains(category, <<"W", "a", "i", "v", "e", "r">>) /\ ~contains(category, <<"L", "o", "s", "t">>) THEN <<"w", "a", "i", "v", "e", "r">>
    ELSE IF contains(category, <<"L", "o", "s", "t">>) THEN <<"l", "o", "s", "t">>
    ELSE <<>>

\* lines 258-270: the <div class="feed-item">
feed_item(t) ==
    [team_abbr |-> t.team_abbr,
     date_str  |-> date_str(t),
     entry     |-> format_entry(t.entry),
     cat_class |-> get_category_class(t.category),
     category  |-> escape(t.category)]

\* json.dumps of the dict of lines 1171-1177
search_object(t) ==
    <<"{", "\"", "e", "n", "t", "r", "y", "\"", ":", " ">> \o json_dumps(t.entry)
    \o <<",", " ", "\"", "t", "e", "a", "m", "\"", ":", " ">> \o json_dumps(t.team_abbr)
    \o <<",", " ", "\"", "c", "a", "t", "e", "g", "o", "r", "y", "\"", ":", " ">> \o json_dumps(t.category)
    \o <<",", " ", "\"", "d", "a", "t", "e", "\"", ":", " ">> \o json_dumps(t.date)
    \o <<",", " ", "\"", "t", "e", "a", "m", "_", "p", "a", "g", "e", "\"", ":", " ">> \o json_dumps(lower(t.team_abbr) \o DOT_HTML)
    \o <<"}">>

\* json.dumps(search_data), line 1180
search_data(txns) ==
    <<"[">> \o join([i \in 1..Len(txns) |-> search_object(txns[i])], <<",", " ">>) \o <<"]">>

\* lines 1179-1180 and 559-561: the statement that opens the script element
\* of index.html
search_js(txns) == <<"c", "o", "n", "s", "t", " ", "s", "e", "a", "r", "c", "h", "D", "a", "t", "a", " ", "=", " ">> \o search_data(txns) \o <<";">>

(***************************************************************************)
(* Markup harness: one cell of a known team's sheet is made a transaction  *)
(* as parse_excel makes it and handed to each renderer.                    *)
(***************************************************************************)
MaxTokens == 4          \* tokens a cell text is put together from

SCRIPT_OPEN == <<"<", "s", "c", "r", "i", "p", "t", ">">>
SCRIPT_CLOSE == <<"<", "/", "s", "c", "r", "i", "p", "t", ">">>

\* the pieces cell texts are put together from
Tokens ==
    { TILDES, <<"_">>, <<"_", "_">>, <<"x">>, <<"<">>, <<"&">>, <<NEWLINE>>,
      SCRIPT_OPEN, SCRIPT_CLOSE, <<"1", "/", "1", "/", "<", ":", " ">> }

RECURSIVE TokenStrings(_)
\* the concatenations of at most n tokens
TokenStrings(n) ==
    IF n = 0 THEN {<<>>}
    ELSE LET shorter == TokenStrings(n - 1)
         IN  shorter \cup {s \o k : s \in shorter, k \in Tokens}

\* the rest of the cell's row and column: the header and the paired cell
MarkupRows ==
    { [category |-> <<"R", "e", "l", "e", "a", "s", "e", "d">>, paired_value |-> None],
      [category |-> <<"R", "e", "l", "e", "a", "s", "e", "d">>, paired_value |-> <<"<", "b", ">", "&", "C", "o">>],
      [category |-> <<"R", "&", "D", " ", "<", "L", "o", "s", "t", ">">>, paired_value |-> None] }

\* lines 198-207, for a cell of sheet 'ARI'
CellTxn(raw, res, row) ==
    [team_abbr    |-> ARI,
     team         |-> TEAM_INFO[ARI].name,
     category     |-> row.category,
     date         |-> res.date,
     entry        |-> res.text,
     raw          |-> raw,
     is_mlb       |-> is_mlb(row.category),
     paired_value |-> row.paired_value]

InitMarkup ==
    /\ \E cell \in TokenStrings(MaxTokens) :
          /\ has_text(cell)
          /\ raw_entry = strip(cell)
    /\ \E row \in MarkupRows :
          markup = [row |-> row, txn |-> None, item |-> None, feed |-> None,
                    script |-> None]
    /\ parsed = None
    /\ sort_key = None
    /\ epc = "cell"
    /\ InitSiteIdle

\* lines 186-207
MakeTxn ==
    /\ epc = "cell"
    /\ parsed' = parse_date(raw_entry)
    /\ markup' = [markup EXCEPT !.txn = CellTxn(raw_entry, parse_date(raw_entry), markup.row)]
    /\ epc' = "item"
    /\ UNCHANGED <<raw_entry, sort_key>>
    /\ UNCHANGED site_vars

\* lines 300-308, 315-323
RenderTransactionItem ==
    /\ epc = "item"
    /\ markup' = [markup EXCEPT !.item = transaction_item(markup.txn)]
    /\ epc' = "feed"
    /\ UNCHANGED <<raw_entry, parsed, sort_key>>
    /\ UNCHANGED site_vars

\* lines 257-270
RenderFeedItem ==
    /\ epc = "feed"
    /\ markup' = [markup EXCEPT !.feed = feed_item(markup.txn)]
    /\ epc' = "search"
    /\ UNCHANGED <<raw_entry, parsed, sort_key>>
    /\ UNCHANGED site_vars

\* lines 1166-1180 and 559-561
RenderSearchJs ==
    /\ epc = "search"
    /\ markup' = [markup EXCEPT !.script = search_js(<<markup.txn>>)]
    /\ epc' = "done"
    /\ UNCHANGED <<raw_entry, parsed, sort_key>>
    /\ UNCHANGED site_vars

NextMarkup == MakeTxn \/ RenderTransactionItem \/ RenderFeedItem \/ RenderSearchJs

SpecMarkup == InitMarkup /\ [][NextMarkup]_vars

(***************************************************************************)
(* Properties of the markup (SpecMarkup).                                  *)
(***************************************************************************)
\* the entities html.escape writes
Entities == {HtmlEntity[c] : c \in DOMAIN HtmlEntity}

\* the tags format_entry generates
GeneratedTags == {S_OPEN, S_CLOSE, EM_OPEN, EM_CLOSE}

\* p stands in s from position i on
At(s, i, p) == i >= 1 /\ i + Len(p) - 1 <= Len(s) /\ SubSeq(s, i, i + Len(p) - 1) = p

\* every '&' of s begins an entity
AmpersandsEscaped(s) ==
    \A i \in 1..Len(s) : s[i] = "&" => \E e \in Entities : At(s, i, e)

\* s is escaped text: no '<', no '>', no bare '&'
EscapedText(s) ==
    /\ \A i \in 1..Len(s) : s[i] \notin {"<", ">"}
    /\ AmpersandsEscaped(s)

\* every '<' of s begins a generated tag and every '>' of s ends one
OnlyGeneratedTags(s) ==
    \A i \in 1..Len(s) :
        /\ s[i] = "<" => \E g \in GeneratedTags : At(s, i, g)
        /\ s[i] = ">" => \E g \in GeneratedTags : At(s, i - Len(g) + 1, g)

\* C11: for an entry that holds the text of a tag such as <script> or
\* </script>, neither the rendered items nor the search data script of
\* index.html hold that tag text.
C11_InjectionSafe ==
    \A tag \in {SCRIPT_OPEN, SCRIPT_CLOSE} :
        (epc = "done" /\ contains(markup.txn.entry, tag)) =>
            /\ ~contains(markup.item.entry, tag)
            /\ ~contains(markup.feed.entry, tag)
            /\ ~contains(markup.script, tag)

\* C12: the entry, the paired value, the date and the category embedded in an
\* accordion item or a feed item hold no '<', '>' or '&' of the cell
\* unescaped (the entry holds the tags format_entry generates, no other).
C12_FieldsEscaped ==
    epc = "done" =>
        /\ OnlyGeneratedTags(markup.item.entry) /\ AmpersandsEscaped(markup.item.entry)
        /\ EscapedText(markup.item.paired)
        /\ EscapedText(markup.item.date_str)
        /\ OnlyGeneratedTags(markup.feed.entry) /\ AmpersandsEscaped(markup.feed.entry)
        /\ EscapedText(markup.feed.date_str)
        /\ EscapedText(markup.feed.category)

RECURSIVE Plain(_)
\* s without the generated tags and without the characters '~' and '_'
Plain(s) ==
    IF s = <<>> THEN <<>>
    ELSE IF \E g \in GeneratedTags : At(s, 1, g)
         THEN LET g == CHOOSE g \in GeneratedTags : At(s, 1, g)
              IN  Plain(SubSeq(s, Len(g) + 1, Len(s)))
    ELSE IF s[1] \in {"~", "_"} THEN Plain(Tail(s))
    ELSE <<s[1]>> \o Plain(Tail(s))

\* every '_' of s has another '_' next to it
UnderscoresAdjacent(s) ==
    \A i \in 1..Len(s) :
        s[i] = "_" => \/ (i > 1 /\ s[i - 1] = "_")
                      \/ (i < Len(s) /\ s[i + 1] = "_")

\* C19: in format_entry's output every '<' and '>' belongs to a generated
\* <s>, </s>, <em> or </em>, the opening and closing tags of each kind are
\* equally many, the escaped text of the input comes through unchanged
\* (the output differs from it in the '~', '_' and generated tags only), and
\* underscores next to another underscore make no italics.
C19_EscapeThenConvert ==
    epc \in {"feed", "search", "done"} =>
        LET src == markup.txn.entry
            out == markup.item.entry
        IN  /\ out = format_entry(src)
            /\ OnlyGeneratedTags(out)
            /\ Cardinality(Occurrences(out, S_OPEN)) = Cardinality(Occurrences(out, S_CLOSE))
            /\ Cardinality(Occurrences(out, EM_OPEN)) = Cardinality(Occurrences(out, EM_CLOSE))
            /\ Plain(out) = Plain(html_escape(src))
            /\ UnderscoresAdjacent(src) => ~contains(out, EM_OPEN)

\* an entry with a '<' between strikethrough markers was rendered
C19_Witness ==
    /\ epc = "done"
    /\ contains(markup.txn.entry, <<"<">>)
    /\ contains(markup.item.entry, S_OPEN \o HtmlEntity["<"])

(***************************************************************************)
(* Wide sheets: workbooks of three-column sheets whose headers and cells   *)
(* come padded with blanks or hold blanks only, and build_site run on them *)
(* once (SpecSheet) or again and again over its own output (SpecRerun).    *)
(***************************************************************************)
SheetCols == 3          \* columns of a wide sheet
SheetRows == 1          \* data rows of a wide sheet

MLB_SIGNINGS == <<"M", "L", "B", " ", "S", "i", "g", "n", "i", "n", "g", "s">>
TRADED_FOR == <<"T", "r", "a", "d", "e", "d", " ", "F", "o", "r">>

WideHeaderCells ==
    { NaN, <<" ">>, <<" ", "R", "e", "l", "e", "a", "s", "e", "d", " ">>, NEW_TEAM, MLB_SIGNINGS, TRADED_FOR }

WideCellValues == { NaN, <<" ">>, <<" ", "d", " ">>, <<"9", "/", "1", ":", " ", "a">> }

WideNameLists == { <<ARI>>, <<BOS, ARI>> }

\* the grid of a wide sheet: the title row, the header row, the data rows
WideGrid(header_row, rows) ==
    <<[c \in 1..SheetCols |-> IF c = 1 THEN TITLE ELSE NaN], header_row>> \o rows

InitSheet ==
    /\ \E name_list \in WideNameLists :
          \E header_row \in [1..SheetCols -> WideHeaderCells] :
             \E rows \in [1..SheetRows -> [1..SheetCols -> WideCellValues]] :
                workbook = [i \in 1..Len(name_list) |->
                               [name |-> name_list[i], df |-> WideGrid(header_row, rows)]]
    /\ pc = "parse_excel"
    /\ all_transactions = <<>>
    /\ team_data = <<>>
    /\ files = <<>>
    /\ todo = <<>>
    /\ InitEntryIdle

SpecSheet == InitSheet /\ [][Next]_vars

\* lines 1262-1263: the script is run again on the same workbook, over the
\* output directory as the run before left it
RunAgain ==
    /\ pc = "done"
    /\ pc' = "parse_excel"
    /\ all_transactions' = <<>>
    /\ team_data' = <<>>
    /\ todo' = <<>>
    /\ UNCHANGED <<workbook, files>>
    /\ UNCHANGED entry_vars

NextRerun == ParseExcel \/ WriteIndex \/ WriteTeamPage \/ Finish \/ RunAgain

SpecRerun == InitSheet /\ [][NextRerun]_vars

(***************************************************************************)
(* Properties of repeated runs (SpecRerun).                                *)
(***************************************************************************)
\* the output build_site leaves for the per-team structure td: index.html,
\* then the page of each team that has a sheet, in sheet order
SiteFiles(td) ==
    <<[name |-> INDEX_HTML, page |-> [team_name |-> "", sections |-> <<>>]]>>
    \o [i \in 1..Len(td) |->
           [name |-> team_file_name(td[i].team_abbr),
            page |-> generate_team_page(td[i].team_abbr, td[i].cols)]]

\* C13: the output is a function of the workbook: in every run, the first or
\* a later one over the output of the run before, each file in the output
\* directory is the file the workbook determines, under a name of its own,
\* and a finished run leaves the same flat list, the same buckets and the
\* same files.
C13_Idempotent ==
    files # <<>> =>
        LET result   == parse_excel(workbook)
            expected == SiteFiles(result.team_data)
        IN  /\ \A f \in 1..Len(files) : f <= Len(expected) /\ files[f] = expected[f]
            /\ pc = "done" =>
                  /\ files = expected
                  /\ all_transactions = result.all_transactions
                  /\ team_data = result.team_data

\* a later run has read the workbook, two transactions or more, and is about
\* to write over the files of the run before
C13_Witness ==
    /\ pc = "index"
    /\ Len(files) >= 2
    /\ Len(all_transactions) >= 2

(***************************************************************************)
(* Properties of the sheet-to-transaction mapper (SpecSheet).              *)
(***************************************************************************)
\* the cell at sheet s, row r, column c (counted from 1) yields a
\* transaction: a known team's sheet, a data row, a header that is there,
\* not blank and not in the skip set, a cell that is there and not blank
Eligible(s, r, c) ==
    LET df == workbook[s].df
    IN  /\ workbook[s].name \in DOMAIN TEAM_INFO
        /\ workbook[s].name # INDY_BALL
        /\ r >= 3
        /\ df[2][c] # NaN
        /\ strip(df[2][c]) # <<>>
        /\ strip(df[2][c]) \notin SKIP_COLS
        /\ df[r][c] # NaN
        /\ strip(df[r][c]) # <<>>

Cells ==
    UNION {UNION {{<<s, r, c>> : c \in 1..Len(workbook[s].df[r])} :
                     r \in 1..Len(workbook[s].df)} :
              s \in 1..Len(workbook)}

EligibleCells == {q \in Cells : Eligible(q[1], q[2], q[3])}

\* C14: the transactions are in one-to-one correspondence with the cells of
\* known-team sheets that are non-empty after trimming, lie in a data row
\* and under a header that is non-empty after trimming and not in the skip
\* set; a transaction has its column's trimmed header as category and the
\* trimmed cell as raw.
C14_OnePerEligibleCell ==
    pc # "parse_excel" =>
        /\ {all_transactions[a].oid : a \in 1..Len(all_transactions)} = EligibleCells
        /\ Len(all_transactions) = Cardinality(EligibleCells)
        /\ \A a \in 1..Len(all_transactions) :
              LET t  == all_transactions[a]
                  df == workbook[t.oid[1]].df
              IN  /\ t.team_abbr = workbook[t.oid[1]].name
                  /\ t.category = strip(df[2][t.oid[3]])
                  /\ t.raw = strip(df[t.oid[2]][t.oid[3]])

\* a sheet was read that has a filled cell under 'New Team' in its first
\* column, a filled cell under a header of blanks, and a padded cell under a
\* padded header that became a transaction
C14_Witness ==
    /\ pc = "done"
    /\ \E s \in 1..Len(workbook) :
          LET df == workbook[s].df
          IN  /\ strip(df[2][1]) = NEW_TEAM /\ has_text(df[3][1])
              /\ \E c \in 1..SheetCols :
                    df[2][c] # NaN /\ strip(df[2][c]) = <<>> /\ has_text(df[3][c])
              /\ \E a \in 1..Len(all_transactions) :
                    LET t == all_transactions[a]
                    IN  /\ t.oid[1] = s
                        /\ t.raw # df[t.oid[2]][t.oid[3]]
                        /\ t.category # df[2][t.oid[3]]

\* the categories the claim names as pairable
PairableNames == { <<"E", "l", "e", "c", "t", "e", "d", " ", "M", "L", "B", " ", "F", "A", "/", "N", "o", "n", "-", "t", "e", "n", "d", "e", "r", "e", "d">>, <<"E", "l", "e", "c", "t", "e", "d", " ", "M", "i", "L", "B", " ", "F", "A">>, <<"R", "e", "l", "e", "a", "s", "e", "d">> }

\* the cell right of the cell at sheet s, row r, column c is a filled cell of
\* a 'New Team' column
PairedCellRight(s, r, c) ==
    LET df == workbook[s].df
    IN  /\ c + 1 <= Len(df[2])
        /\ df[2][c + 1] # NaN
        /\ strip(df[2][c + 1]) = <<"N", "e", "w", " ", "T", "e", "a", "m">>
        /\ df[r][c + 1] # NaN
        /\ strip(df[r][c + 1]) # <<>>

\* C15: a transaction has a paired_value exactly when its category is
\* pairable, the column right of its own has the header 'New Team' and that
\* column's cell in its row is non-empty after trimming; the paired_value is
\* then that trimmed cell, and absent in every other case.
C15_PairedValue ==
    pc # "parse_excel" =>
        \A a \in 1..Len(all_transactions) :
            LET t == all_transactions[a]
                s == t.oid[1]
                r == t.oid[2]
                c == t.oid[3]
            IN  IF t.category \in PairableNames /\ PairedCellRight(s, r, c)
                THEN t.paired_value = strip(workbook[s].df[r][c + 1])
                ELSE t.paired_value = None

\* a 'Released' transaction took the trimmed text of the padded cell to its
\* right as paired_value
C15_Witness ==
    /\ pc = "done"
    /\ \E a \in 1..Len(all_transactions) :
          LET t == all_transactions[a]
          IN  /\ t.paired_value # None
              /\ t.paired_value # workbook[t.oid[1]].df[t.oid[2]][t.oid[3] + 1]

(***************************************************************************)
(* Properties of the order of the lists (Spec).                            *)
(***************************************************************************)
\* the cell a was read before the cell b: sheet by sheet, within a sheet
\* column by column, within a column row by row
ReadBefore(a, b) ==
    \/ a[1] < b[1]
    \/ a[1] = b[1] /\ a[3] < b[3]
    \/ a[1] = b[1] /\ a[3] = b[3] /\ a[2] < b[2]

\* C16: the flat list is sorted ascending by date_sort_key, and transactions
\* of equal key stand in the order they were read: sheet order, then column
\* order within the sheet, then row order within the column.
C16_SortedAndStable ==
    pc # "parse_excel" =>
        \A i, j \in 1..Len(all_transactions) :
            i < j =>
                LET ki == date_sort_key(all_transactions[i])
                    kj == date_sort_key(all_transactions[j])
                IN  /\ ~KeyLess(kj, ki)
                    /\ ki = kj => ReadBefore(all_transactions[i].oid, all_transactions[j].oid)

\* two transactions of equal key: the first of the flat list stands in a
\* lower row and an earlier column of the sheet than the second
C16_Witness ==
    /\ pc = "done"
    /\ \E i, j \in 1..Len(all_transactions) :
          /\ i < j
          /\ date_sort_key(all_transactions[i]) = date_sort_key(all_transactions[j])
          /\ all_transactions[i].oid[1] = all_transactions[j].oid[1]
          /\ all_transactions[i].oid[2] > all_transactions[j].oid[2]
          /\ all_transactions[i].oid[3] < all_transactions[j].oid[3]

\* C17: in every state after ingestion, while and after the pages are
\* rendered, each bucket lists its transactions in the order they were
\* read from the sheet, not in date order, and every transaction of the
\* buckets and of the flat list has the fields it was constructed with.
C17_BucketsUntouched ==
    pc # "parse_excel" =>
        /\ team_data = read_team_data(workbook, 1)
        /\ \A a \in 1..Len(all_transactions) :
              LET t == all_transactions[a]
              IN  t = make_txn(t.oid[1], workbook[t.oid[1]].name,
                               workbook[t.oid[1]].df, t.oid[2], t.oid[3])
        /\ \A i \in 1..Len(team_data) : \A k \in 1..Len(team_data[i].cols) :
              LET txns == team_data[i].cols[k].txns
              IN  \A m, n \in 1..Len(txns) :
                     m < n => ReadBefore(txns[m].oid, txns[n].oid)

\* a page was written that shows two transactions of one bucket in date
\* order, while the bucket holds them in the opposite, sheet order
C17_Witness ==
    /\ pc = "done"
    /\ \E i \in 1..Len(team_data) : \E k \in 1..Len(team_data[i].cols) :
          LET txns == team_data[i].cols[k].txns
          IN  /\ Len(txns) = 2
              /\ KeyLess(date_sort_key(txns[2]), date_sort_key(txns[1]))
              /\ \E f \in TeamFiles : \E n \in 1..Len(files[f].page.sections) :
                    LET items == files[f].page.sections[n].items
                    IN  \E a, b \in 1..Len(items) :
                           /\ a < b
                           /\ IsItem(items[a]) /\ items[a].t = txns[2]
                           /\ IsItem(items[b]) /\ items[b].t = txns[1]

\* the number of the configured section of a title
SectionNo(title) ==
    CHOOSE n \in 1..Len(ACCORDION_SECTIONS) : ACCORDION_SECTIONS[n].title = title

\* the team whose page a file is
TeamOfFile(f) ==
    CHOOSE i \in 1..Len(team_data) :
        files[f].name = lower(team_data[i].team_abbr) \o DOT_HTML

\* the transactions a team has under a category, none if it has no such column
Bucket(i, col) ==
    LET hits == {k \in 1..Len(team_data[i].cols) : team_data[i].cols[k].col = col}
    IN  IF hits = {} THEN <<>> ELSE team_data[i].cols[CHOOSE k \in hits : TRUE].txns

\* the columns of a section that are not empty for a team, in column order
NonEmptyColumns(i, section) ==
    SelectSeq(section.columns, LAMBDA col : Bucket(i, col) # <<>>)

RECURSIVE GroupStart(_, _, _)
\* where the group of the j-th non-empty column starts in the items
GroupStart(i, cols, j) ==
    IF j = 1 THEN 1
    ELSE GroupStart(i, cols, j - 1) + 1 + Len(Bucket(i, cols[j - 1]))

\* items[from..from+Len(txns)-1] are the given transactions, each once,
\* ascending by sort key
SortedListOf(items, from, txns) ==
    /\ \A p \in 0..(Len(txns) - 1) : IsItem(items[from + p])
    /\ {items[from + p].t : p \in 0..(Len(txns) - 1)} = {txns[m] : m \in 1..Len(txns)}
    /\ \A p \in 0..(Len(txns) - 2) :
          ~KeyLess(date_sort_key(items[from + p + 1].t), date_sort_key(items[from + p].t))

\* the items of a subheader section: per non-empty column one subheader and
\* that column's transactions, sorted on their own
SubheaderRendering(i, section, items) ==
    LET cols == NonEmptyColumns(i, section)
    IN  /\ Len(items) = GroupStart(i, cols, Len(cols) + 1) - 1
        /\ \A j \in 1..Len(cols) :
              LET at == GroupStart(i, cols, j)
              IN  /\ items[at].kind = "subheader"
                  /\ items[at].label = SUBHEADER_LABELS[cols[j]]
                  /\ SortedListOf(items, at + 1, Bucket(i, cols[j]))

\* the items of any other section: the transactions of all its columns as
\* one sorted list
MergedRendering(i, section, items) ==
    LET all == UNION {{<<c, m>> : m \in 1..Len(Bucket(i, section.columns[c]))} :
                          c \in 1..Len(section.columns)}
    IN  /\ Len(items) = Cardinality(all)
        /\ \A p \in 1..Len(items) : IsItem(items[p])
        /\ {items[p].t : p \in 1..Len(items)}
              = {Bucket(i, section.columns[q[1]])[q[2]] : q \in all}
        /\ \A p \in 1..(Len(items) - 1) :
              ~KeyLess(date_sort_key(items[p + 1].t), date_sort_key(items[p].t))

\* C18: on every team page the sections are in the configured order, a
\* configured section is on the page exactly when one of its categories is
\* not empty for the team, a subheader section of several categories shows
\* per non-empty category, in column order, one subheader and then that
\* category's transactions sorted by the sort key on their own, and every
\* other section shows the transactions of its categories as one sorted list.
C18_SectionRendering ==
    \A f \in TeamFiles :
        LET sections == files[f].page.sections
            i == TeamOfFile(f)
        IN  /\ \A a, b \in 1..Len(sections) :
                  a < b => SectionNo(sections[a].title) < SectionNo(sections[b].title)
            /\ \A n \in 1..Len(ACCORDION_SECTIONS) :
                  (\E a \in 1..Len(sections) : sections[a].title = ACCORDION_SECTIONS[n].title)
                      <=> NonEmptyColumns(i, ACCORDION_SECTIONS[n]) # <<>>
            /\ \A a \in 1..Len(sections) :
                  LET section == ACCORDION_SECTIONS[SectionNo(sections[a].title)]
                  IN  IF section.subheaders /\ Len(section.columns) > 1
                      THEN SubheaderRendering(i, section, sections[a].items)
                      ELSE MergedRendering(i, section, sections[a].items)

\* a written page whose Trades section has both subheaders, the acquired
\* player dated after the traded one: one merged sorted list would differ
C18_Witness ==
    \E f \in TeamFiles : \E a \in 1..Len(files[f].page.sections) :
        LET items == files[f].page.sections[a].items
        IN  /\ Len(items) = 4
            /\ items[1].kind = "subheader" /\ items[3].kind = "subheader"
            /\ IsItem(items[2]) /\ IsItem(items[4])
            /\ KeyLess(date_sort_key(items[4].t), date_sort_key(items[2].t))

\* the titles of the sections of the headline categories
MlbSectionTitles ==
    { MLB_SIGNINGS,
      <<"E", "x", "t", "e", "n", "s", "i", "o", "n", "s">>,
      <<"T", "r", "a", "d", "e", "s">>,
      <<"W", "a", "i", "v", "e", "r", " ", "C", "l", "a", "i", "m", "s">>,
      <<"L", "o", "s", "t", " ", "o", "f", "f", " ", "W", "a", "i", "v", "e", "r", "s">> }

\* the category names some display section maps
MappedCategories ==
    UNION {{ACCORDION_SECTIONS[n].columns[c] : c \in 1..Len(ACCORDION_SECTIONS[n].columns)} :
              n \in 1..Len(ACCORDION_SECTIONS)}

\* is_mlb is true exactly for the categories of the MLB-relevant set
FlagIsMembership ==
    \A a \in 1..Len(all_transactions) :
        all_transactions[a].is_mlb <=> all_transactions[a].category \in MLB_RELEVANT_COLS

\* every MLB-relevant name a transaction was read under is the category of
\* some display section
RelevantCategoriesMapped ==
    \A a \in 1..Len(all_transactions) :
        all_transactions[a].category \in MLB_RELEVANT_COLS
            => all_transactions[a].category \in MappedCategories

\* what a page shows in a headline section carries the flag
MlbSectionsCarryFlag ==
    \A f \in TeamFiles : \A a \in 1..Len(files[f].page.sections) :
        LET section == files[f].page.sections[a]
        IN  section.title \in MlbSectionTitles =>
                \A p \in 1..Len(section.items) :
                    IsItem(section.items[p]) => section.items[p].t.is_mlb

\* C20: is_mlb is true exactly when the category is in the MLB-relevant
\* set, every name of that set is a category mapped by a display section,
\* and every transaction shown in the 'MLB Signings', 'Extensions',
\* 'Trades', 'Waiver Claims' and 'Lost off Waivers' sections has is_mlb true.
C20_FlagMatchesSections ==
    /\ FlagIsMembership
    /\ RelevantCategoriesMapped
    /\ MlbSectionsCarryFlag

====
